---------------------------- MODULE Spec2Model ----------------------------
(***************************************************************************)
(* A model of vector-lib (src/src/index.ts): the VecBase container with    *)
(* its element-wise algebra, the Vec2/Vec3/Vec4 wrappers and the Proxy     *)
(* handlers (createVecProxy) that resolve swizzle reads and writes.        *)
(*                                                                         *)
(* The JavaScript heap is modelled as three growing tables:                *)
(*   arrays  - the Array objects that serve as a vector's body            *)
(*   objs    - the VecBase instances (fields swizzles and body)            *)
(*   proxies - the Proxy objects returned by createVecProxy               *)
(* A table index is the identity of the object.  held is the set of        *)
(* references the calling program has received, last is the log of the     *)
(* most recent call (what was called, on what, and what it returned) and   *)
(* step counts the calls made.                                             *)
(*                                                                         *)
(* Numbers are exact rationals n/d (d > 0, lowest terms) plus NaN.  IEEE   *)
(* infinities and the sign of zero are not represented, so a division is   *)
(* only taken when no divisor is zero.                                     *)
(***************************************************************************)
EXTENDS Integers, Sequences, FiniteSets, TLC

VARIABLES arrays, objs, proxies, held, last, step

vars == <<arrays, objs, proxies, held, last, step>>

---------------------------------------------------------------------------
(* JavaScript values.  Every value is a record [k, n, d] so that any two   *)
(* values can be compared.                                                 *)

RECURSIVE GCD(_, _)
GCD(a, b) == IF b = 0 THEN a ELSE GCD(b, a % b)

Abs(x) == IF x < 0 THEN -x ELSE x

\* the number n/d in lowest terms with a positive denominator
Rat(n, d) ==
    LET s == IF d < 0 THEN -1 ELSE 1
        g == GCD(Abs(n), Abs(d))
    IN  [k |-> "num", n |-> (s * n) \div g, d |-> (s * d) \div g]

Num(n) == [k |-> "num", n |-> n, d |-> 1]

NaN == [k |-> "nan", n |-> 0, d |-> 1]

Undefined == [k |-> "undefined", n |-> 0, d |-> 1]

\* an index of an Array below its length that holds no element
Hole == [k |-> "hole", n |-> 0, d |-> 1]

JsTrue == [k |-> "bool", n |-> 1, d |-> 1]

JsFalse == [k |-> "bool", n |-> 0, d |-> 1]

\* a reference to the Proxy proxies[p] / to the plain instance objs[o]
ProxyRef(p) == [k |-> "proxy", n |-> p, d |-> 1]

VecRef(o) == [k |-> "vec", n |-> o, d |-> 1]

\* typeof v === "number"
IsNumber(v) == v.k \in {"num", "nan"}

\* a + b, a - b, a * b, a / b on numbers and undefined (ToNumber(undefined) is NaN)
Plus(a, b) ==
    IF a.k = "num" /\ b.k = "num" THEN Rat(a.n * b.d + b.n * a.d, a.d * b.d) ELSE NaN

Minus(a, b) ==
    IF a.k = "num" /\ b.k = "num" THEN Rat(a.n * b.d - b.n * a.d, a.d * b.d) ELSE NaN

Times(a, b) ==
    IF a.k = "num" /\ b.k = "num" THEN Rat(a.n * b.n, a.d * b.d) ELSE NaN

\* a / b; a zero divisor is excluded by the guard of the actions that divide
Over(a, b) ==
    IF a.k = "num" /\ b.k = "num" /\ b.n # 0 THEN Rat(a.n * b.d, a.d * b.n) ELSE NaN

ZeroDivisor(b) == b.k = "num" /\ b.n = 0

\* a > b, a < b: false as soon as one side is NaN
Greater(a, b) == a.k = "num" /\ b.k = "num" /\ a.n * b.d > b.n * a.d

Less(a, b) == a.k = "num" /\ b.k = "num" /\ a.n * b.d < b.n * a.d

\* Math.sqrt(v): exact for the square of a rational, else the symbolic root
IsSquare(m) == \E r \in 0..m : r * r = m

Root(m) == CHOOSE r \in 0..m : r * r = m

Sqrt(v) ==
    IF v.k # "num" \/ v.n < 0 THEN NaN
    ELSE IF IsSquare(v.n) /\ IsSquare(v.d) THEN Rat(Root(v.n), Root(v.d))
    ELSE [k |-> "sqrt", n |-> v.n, d |-> v.d]

---------------------------------------------------------------------------
(* Arrays.  elems[i + 1] is the element at JavaScript index i (Hole when   *)
(* the index holds nothing); neg1 is the own property "-1", which          *)
(* body[-1] reads and writes (Undefined when the property is absent).      *)

MkArray(es) == [elems |-> es, neg1 |-> Undefined]

\* arr[i] for i >= -1
ArrGet(arr, i) ==
    IF i = -1 THEN arr.neg1
    ELSE IF i >= Len(arr.elems) THEN Undefined
    ELSE IF arr.elems[i + 1] = Hole THEN Undefined
    ELSE arr.elems[i + 1]

\* arr[i] = v for i >= -1; writing past the end leaves holes in between
ArrSet(arr, i, v) ==
    IF i = -1 THEN [arr EXCEPT !.neg1 = v]
    ELSE [arr EXCEPT !.elems =
            [j \in 1..(IF i + 1 > Len(arr.elems) THEN i + 1 ELSE Len(arr.elems)) |->
                IF j = i + 1 THEN v
                ELSE IF j <= Len(arr.elems) THEN arr.elems[j]
                ELSE Hole]]

\* [...arr]: holes are read as undefined
Spread(arr) == [j \in 1..Len(arr.elems) |-> ArrGet(arr, j - 1)]

\* structuredClone(arr): a new Array with the same length, the same elements
\* and the same own enumerable properties
StructuredClone(arr) == [elems |-> arr.elems, neg1 |-> arr.neg1]

\* arr.reduce((acc, v) => acc + v, acc) from index j - 1 on: holes are skipped
RECURSIVE ReducePlus(_, _, _)
ReducePlus(es, j, acc) ==
    IF j > Len(es) THEN acc
    ELSE IF es[j] = Hole THEN ReducePlus(es, j + 1, acc)
    ELSE ReducePlus(es, j + 1, Plus(acc, es[j]))

Present(es) == {j \in 1..Len(es) : es[j] # Hole}

FirstPresent(es) == CHOOSE j \in Present(es) : \A i \in Present(es) : j <= i

\* arr.reduce((acc, v) => acc + v * v, acc) from index j - 1 on
RECURSIVE ReduceSquares(_, _, _)
ReduceSquares(es, j, acc) ==
    IF j > Len(es) THEN acc
    ELSE IF es[j] = Hole THEN ReduceSquares(es, j + 1, acc)
    ELSE ReduceSquares(es, j + 1, Plus(acc, Times(es[j], es[j])))

\* seq[i] of a JavaScript array literal held as a sequence (i from 0)
SeqAt(seq, i) == IF i >= 0 /\ i < Len(seq) THEN seq[i + 1] ELSE Undefined

---------------------------------------------------------------------------
(* The heap H = [arrays, objs, proxies], and allocation in it.  An         *)
(* operator that models a method takes the heap it runs in and yields      *)
(* [h |-> the heap afterwards, ret |-> the value returned].                *)

Heap == [arrays |-> arrays, objs |-> objs, proxies |-> proxies]

NewArray(H, arr) == [H EXCEPT !.arrays = Append(@, arr)]

NewObject(H, obj) == [H EXCEPT !.objs = Append(@, obj)]

BodyOf(H, o) == H.arrays[H.objs[o].body]

\* the instance a reference denotes: a Proxy forwards to its target
TargetOf(H, ref) == IF ref.k = "proxy" THEN H.proxies[ref.n].target ELSE ref.n

\* TypeError raised by the runtime
Throws == [k |-> "throws", n |-> 0, d |-> 1]

\* target[p] for a declared member p (a method, or a private field)
Member == [k |-> "member", n |-> 0, d |-> 1]

---------------------------------------------------------------------------
(* class VecBase                                                           *)

\* constructor(swizzles, body): the instance keeps the two arguments as they
\* are.  The swizzles arrays are never written, so they are held by value.
VecBase(H, cls, swizzles, body) ==
    LET h == NewObject(H, [cls |-> cls, swizzles |-> swizzles, body |-> body])
    IN  [h |-> h, ret |-> VecRef(Len(h.objs))]

\* clone handing its own body Array to the new instance
clone_shared(H, o) ==
    LET h2 == NewObject(H, [cls |-> H.objs[o].cls,
                            swizzles |-> H.objs[o].swizzles,
                            body |-> H.objs[o].body])
    IN  [h |-> h2, ret |-> VecRef(Len(h2.objs))]

\* clone(): a new instance of the same prototype with structured clones of
\* swizzles and body
clone(H, o) ==
    LET h1 == NewArray(H, StructuredClone(BodyOf(H, o)))
        h2 == NewObject(h1, [cls |-> H.objs[o].cls,
                             swizzles |-> H.objs[o].swizzles,
                             body |-> Len(h1.arrays)])
    IN  [h |-> h2, ret |-> VecRef(Len(h2.objs))]

\* find_swizzle_index counting the names from one
find_swizzle_index_from_one(H, o, swizzle) ==
    LET s == H.objs[o].swizzles
        hits == {i \in 1..Len(s) : s[i] = swizzle}
    IN  IF hits = {} THEN -1
        ELSE CHOOSE i \in hits : \A j \in hits : i <= j

\* this.swizzles.findIndex(v => swizzle === v): the first index, or -1
find_swizzle_index(H, o, swizzle) ==
    LET s == H.objs[o].swizzles
        hits == {i \in 1..Len(s) : s[i] = swizzle}
    IN  IF hits = {} THEN -1
        ELSE (CHOOSE i \in hits : \A j \in hits : i <= j) - 1

get_swizzles(H, o) == H.objs[o].swizzles

get_dimension(H, o, dimension) ==
    ArrGet(BodyOf(H, o), find_swizzle_index(H, o, dimension))

\* set_dimension writing one index further
set_dimension_next(H, o, dimension, value) ==
    [H EXCEPT !.arrays[H.objs[o].body] =
        ArrSet(@, find_swizzle_index(H, o, dimension) + 1, value)]

set_dimension(H, o, dimension, value) ==
    [H EXCEPT !.arrays[H.objs[o].body] =
        ArrSet(@, find_swizzle_index(H, o, dimension), value)]

\* clone.body = arr: the clone gets a new Array as its body
SetBody(H, o, arr) ==
    LET h == NewArray(H, arr)
    IN  [h EXCEPT !.objs[o].body = Len(h.arrays)]

\* The callbacks handed to couple_element_wise: a callback is the record
\* [f, t] of the arrow function's body f and the t it closes over.
Callback(f) == [f |-> f, t |-> Undefined]

\* callback(a, b)
Call(callback, a, b) ==
    CASE callback.f = "a + b" -> Plus(a, b)
      [] callback.f = "a - b" -> Minus(a, b)
      [] callback.f = "a / b" -> Over(a, b)
      [] callback.f = "a * b" -> Times(a, b)
      [] callback.f = "lerp" ->
            IF Greater(callback.t, Num(1)) THEN b
            ELSE IF Less(callback.t, Num(0)) THEN a
            ELSE Plus(a, Over(Plus(a, b), Num(2)))

\* couple_element_wise pairing each element with the next one of other
couple_element_wise_shifted(H, o, other, callback) ==
    LET c == clone(H, o)
        body == BodyOf(c.h, c.ret.n)
        mapped == MkArray([j \in 1..Len(body.elems) |->
                     IF body.elems[j] = Hole THEN Hole
                     ELSE Call(callback, body.elems[j],
                               ArrGet(BodyOf(c.h, other), j % Len(body.elems)))])
    IN  [h |-> SetBody(c.h, c.ret.n, mapped), ret |-> c.ret]

\* clone.body.map((v, i) => callback(v, other.body[i])) becomes the clone's
\* body: map gives a new Array of the same length, skips the holes and leaves
\* them holes, and copies no named property
couple_element_wise(H, o, other, callback) ==
    LET c == clone(H, o)
        body == BodyOf(c.h, c.ret.n)
        mapped == MkArray([j \in 1..Len(body.elems) |->
                     IF body.elems[j] = Hole THEN Hole
                     ELSE Call(callback, body.elems[j],
                               ArrGet(BodyOf(c.h, other), j - 1))])
    IN  [h |-> SetBody(c.h, c.ret.n, mapped), ret |-> c.ret]

add(H, o, other) == couple_element_wise(H, o, other, Callback("a + b"))

subtract(H, o, other) == couple_element_wise(H, o, other, Callback("a - b"))

divide(H, o, other) == couple_element_wise(H, o, other, Callback("a / b"))

multiply(H, o, other) == couple_element_wise(H, o, other, Callback("a * b"))

\* clone.body.map(() => number), then this.multiply(clone)
scalar(H, o, number) ==
    LET c == clone(H, o)
        body == BodyOf(c.h, c.ret.n)
        mapped == MkArray([j \in 1..Len(body.elems) |->
                     IF body.elems[j] = Hole THEN Hole ELSE number])
    IN  multiply(SetBody(c.h, c.ret.n, mapped), o, c.ret.n)

lerp(H, o, other, t) ==
    couple_element_wise(H, o, other, [f |-> "lerp", t |-> t])

norm(H, o) == Sqrt(ReduceSquares(BodyOf(H, o).elems, 1, Num(0)))

\* reduce without an initial value starts from the first element present and
\* throws on an Array that holds none
dot(H, o, other) ==
    LET m == multiply(H, o, other)
        es == BodyOf(m.h, m.ret.n).elems
    IN  [h |-> m.h,
         ret |-> IF Present(es) = {} THEN Throws
                 ELSE ReducePlus(es, FirstPresent(es) + 1, es[FirstPresent(es)])]

\* the loop of cross from i on; values0 and values1 are the doubled bodies
RECURSIVE CrossLoop(_, _, _, _)
CrossLoop(values0, values1, i, result) ==
    IF i >= 3 THEN result
    ELSE LET i2 == 1 - i
             i3 == 4 - i
             c1 == i
             c2 == i3
             j == IF i2 < 0 THEN i3 ELSE i2
             r1 == [result EXCEPT ![i + 1] =
                       Plus(@, Times(SeqAt(values0, c1 + 1), SeqAt(values1, c1 + 2)))]
             r2 == [r1 EXCEPT ![j + 1] =
                       Minus(@, Times(SeqAt(values0, c2 - 1), SeqAt(values1, c2 - 2)))]
         IN  CrossLoop(values0, values1, i + 1, r2)

\* cross with the two operands taken the other way round
cross_swapped(H, o, other) ==
    IF Len(BodyOf(H, o).elems) # 3 THEN [h |-> H, ret |-> Undefined]
    ELSE LET values0 == Spread(BodyOf(H, other)) \o Spread(BodyOf(H, other))
             values1 == Spread(BodyOf(H, o)) \o Spread(BodyOf(H, o))
             result == CrossLoop(values0, values1, 0, <<Num(0), Num(0), Num(0)>>)
             c == clone(H, o)
         IN  [h |-> SetBody(c.h, c.ret.n, MkArray(result)), ret |-> c.ret]

cross(H, o, other) ==
    IF Len(BodyOf(H, o).elems) # 3 THEN [h |-> H, ret |-> Undefined]
    ELSE LET values0 == Spread(BodyOf(H, o)) \o Spread(BodyOf(H, o))
             values1 == Spread(BodyOf(H, other)) \o Spread(BodyOf(H, other))
             result == CrossLoop(values0, values1, 0, <<Num(0), Num(0), Num(0)>>)
             c == clone(H, o)
         IN  [h |-> SetBody(c.h, c.ret.n, MkArray(result)), ret |-> c.ret]

---------------------------------------------------------------------------
(* Vec2, Vec3, Vec4 and createVecProxy                                     *)

swizzle_particals(cls) ==
    CASE cls = "Vec2" -> <<"x", "y">>
      [] cls = "Vec3" -> <<"x", "y", "z">>
      [] cls = "Vec4" -> <<"x", "y", "z", "w">>

\* new Vec2(...body), new Vec3(...body), new Vec4(...body): the rest
\* parameter is a new Array of the arguments, handed to VecBase as it is
VecN(H, cls, body) ==
    LET h == NewArray(H, MkArray(body))
    IN  VecBase(h, cls, swizzle_particals(cls), Len(h.arrays))

\* new Proxy(vec, { get, set }): the handlers close over vec's Proxy only
\* through target, and over swizzles
createVecProxy(H, vec, swizzles) ==
    LET h == [H EXCEPT !.proxies = Append(@, [target |-> vec, swizzles |-> swizzles])]
    IN  [h |-> h, ret |-> ProxyRef(Len(h.proxies))]

\* Vec2.new(...body), Vec3.new(...body), Vec4.new(...body)
VecNew(H, cls, body) ==
    LET v == VecN(H, cls, body)
    IN  createVecProxy(v.h, v.ret.n, swizzle_particals(cls))

swizzleMatch(swizzles, val) ==
    IF Len(swizzles) >= Len(val)
    THEN \A i \in 1..Len(val) : \E j \in 1..Len(swizzles) : swizzles[j] = val[i]
    ELSE FALSE

\* the property names an instance has, own or inherited: a key is a sequence
\* of characters
MemberNames ==
    { <<"b", "o", "d", "y">>, <<"a", "d", "d">>, <<"d", "o", "t">> }

\* Reflect.has(target, p)
Has(p) == p \in MemberNames

\* the get handler of Proxy px for the string key p
get(H, px, p) ==
    LET target == H.proxies[px].target
        swizzles == H.proxies[px].swizzles
        chars == p
        result == [i \in 1..Len(chars) |-> get_dimension(H, target, chars[i])]
    IN  IF Has(p) THEN [h |-> H, ret |-> Member]
        ELSE IF ~swizzleMatch(swizzles, chars) THEN [h |-> H, ret |-> Undefined]
        ELSE IF Len(result) = 1 THEN [h |-> H, ret |-> result[1]]
        ELSE IF Len(result) = 2 THEN VecNew(H, "Vec2", result)
        ELSE IF Len(result) = 3 THEN VecNew(H, "Vec3", result)
        ELSE IF Len(result) = 4 THEN VecNew(H, "Vec4", result)
        ELSE LET h == NewArray(H, MkArray(result))
                 v == VecBase(h, "VecBase", swizzles, Len(h.arrays))
             IN  createVecProxy(v.h, v.ret.n, swizzles)

\* the loop of the set handler from character i of chars on
RECURSIVE SetLoop(_, _, _, _, _)
SetLoop(H, target, chars, value, i) ==
    IF i > Len(chars) THEN [h |-> H, ret |-> JsTrue]
    ELSE LET dimension == chars[i]
             dimension_value == get_dimension(H, TargetOf(H, value), dimension)
         IN  IF ~IsNumber(dimension_value) THEN [h |-> H, ret |-> JsFalse]
             ELSE SetLoop(set_dimension(H, target, dimension, dimension_value),
                          target, chars, value, i + 1)

\* value instanceof VecBase
InstanceOfVecBase(value) == value.k \in {"proxy", "vec"}

\* the set handler of Proxy px for a string key p that is no member
set(H, px, p, value) ==
    LET target == H.proxies[px].target
        swizzles == H.proxies[px].swizzles
        chars == p
    IN  IF ~InstanceOfVecBase(value) THEN [h |-> H, ret |-> JsFalse]
        ELSE IF ~swizzleMatch(swizzles, chars) THEN [h |-> H, ret |-> JsFalse]
        ELSE SetLoop(H, target, chars, value, 1)

---------------------------------------------------------------------------
(* Inputs                                                                  *)

\* the longest name list of the exported classes (Vec4.swizzle_particals)
MaxArity == 4

\* component values range over 1..MaxVal
MaxVal == 2

Val == {Num(n) : n \in 1..MaxVal}

Classes == {"Vec2", "Vec3", "Vec4"}

Arity(cls) == Len(swizzle_particals(cls))

\* the argument lists the body types admit: N numbers, or one number
FullBodies(cls) == [1..Arity(cls) -> Val]

SingleBodies == [1..1 -> Val]

\* the characters of the keys tried: the four names and one that is none
Chars == {"x", "y", "z", "w", "a"}

\* the string keys: every string over Chars of at most MaxArity characters
\* (the empty string among them) and strings one character longer
Keys ==
    UNION {[1..n -> Chars] : n \in 0..MaxArity}
        \cup {[i \in 1..(MaxArity + 1) |-> c] : c \in Chars}

\* the values of t, of a scale factor and of a component written directly
Ts == {Num(-1), Num(0), Rat(1, 2), Num(1), Num(2)}

Factors == {Num(0), Num(3)}

Written == {Num(9)}

\* what a program may assign to a swizzle key besides a vector
NonVectors == {Num(7)}

---------------------------------------------------------------------------
(* Steps: one call of the library each                                     *)

NoRef == [k |-> "none", n |-> 0, d |-> 1]

\* op(recv, arg, key, num) was called with the argument list body and gave ret
Log(op, recv, arg, key, num, body, ret) ==
    [op |-> op, recv |-> recv, arg |-> arg, key |-> key, num |-> num,
     body |-> body, ret |-> ret]

IsRef(v) == v.k \in {"proxy", "vec"}

\* the call returned res: the heap is res.h, and a reference returned is held
Return(res, entry) ==
    /\ arrays' = res.h.arrays
    /\ objs' = res.h.objs
    /\ proxies' = res.h.proxies
    /\ held' = IF IsRef(res.ret) THEN held \cup {res.ret} ELSE held
    /\ last' = entry
    /\ step' = step + 1

\* new Vec2(...body), new Vec3(...body), new Vec4(...body)
Construct(cls, body) ==
    LET res == VecN(Heap, cls, body)
    IN  Return(res, Log("construct", NoRef, NoRef, <<>>, NoRef, body, res.ret))

\* Vec2.new(...body), Vec3.new(...body), Vec4.new(...body)
New(cls, body) ==
    LET res == VecNew(Heap, cls, body)
    IN  Return(res, Log("new", NoRef, NoRef, <<>>, NoRef, body, res.ret))

Clone(r) ==
    LET res == clone(Heap, TargetOf(Heap, r))
    IN  Return(res, Log("clone", r, NoRef, <<>>, NoRef, <<>>, res.ret))

Add(r, s) ==
    LET res == add(Heap, TargetOf(Heap, r), TargetOf(Heap, s))
    IN  Return(res, Log("add", r, s, <<>>, NoRef, <<>>, res.ret))

Subtract(r, s) ==
    LET res == subtract(Heap, TargetOf(Heap, r), TargetOf(Heap, s))
    IN  Return(res, Log("subtract", r, s, <<>>, NoRef, <<>>, res.ret))

Multiply(r, s) ==
    LET res == multiply(Heap, TargetOf(Heap, r), TargetOf(Heap, s))
    IN  Return(res, Log("multiply", r, s, <<>>, NoRef, <<>>, res.ret))

\* taken only when no component is divided by zero
Divide(r, s) ==
    LET o == TargetOf(Heap, r)
        other == TargetOf(Heap, s)
        res == divide(Heap, o, other)
    IN  /\ \A j \in Present(BodyOf(Heap, o).elems) :
               ~ZeroDivisor(ArrGet(BodyOf(Heap, other), j - 1))
        /\ Return(res, Log("divide", r, s, <<>>, NoRef, <<>>, res.ret))

Scalar(r, number) ==
    LET res == scalar(Heap, TargetOf(Heap, r), number)
    IN  Return(res, Log("scalar", r, NoRef, <<>>, number, <<>>, res.ret))

Lerp(r, s, t) ==
    LET res == lerp(Heap, TargetOf(Heap, r), TargetOf(Heap, s), t)
    IN  Return(res, Log("lerp", r, s, <<>>, t, <<>>, res.ret))

Dot(r, s) ==
    LET res == dot(Heap, TargetOf(Heap, r), TargetOf(Heap, s))
    IN  Return(res, Log("dot", r, s, <<>>, NoRef, <<>>, res.ret))

Norm(r) ==
    LET res == [h |-> Heap, ret |-> norm(Heap, TargetOf(Heap, r))]
    IN  Return(res, Log("norm", r, NoRef, <<>>, NoRef, <<>>, res.ret))

Cross(r, s) ==
    LET res == cross(Heap, TargetOf(Heap, r), TargetOf(Heap, s))
    IN  Return(res, Log("cross", r, s, <<>>, NoRef, <<>>, res.ret))

GetDimension(r, dimension) ==
    LET res == [h |-> Heap, ret |-> get_dimension(Heap, TargetOf(Heap, r), dimension)]
    IN  Return(res, Log("get_dimension", r, NoRef, <<dimension>>, NoRef, <<>>, res.ret))

SetDimension(r, dimension, value) ==
    LET res == [h |-> set_dimension(Heap, TargetOf(Heap, r), dimension, value),
                ret |-> Undefined]
    IN  Return(res, Log("set_dimension", r, NoRef, <<dimension>>, value, <<>>, res.ret))

\* r[key], r a Proxy
SwizzleGet(r, key) ==
    LET res == get(Heap, r.n, key)
    IN  /\ r.k = "proxy"
        /\ Return(res, Log("get", r, NoRef, key, NoRef, <<>>, res.ret))

\* r[key] = value, r a Proxy and key no member name
SwizzleSet(r, key, value) ==
    LET res == set(Heap, r.n, key, value)
    IN  /\ r.k = "proxy"
        /\ ~Has(key)
        /\ Return(res, Log("set", r, value, key, NoRef, <<>>, res.ret))

\* r[key] = s[key], r and s Proxies: the read, then the write of what it gave
SwizzleCopy(r, s, key) ==
    LET read == get(Heap, s.n, key)
        res == set(read.h, r.n, key, read.ret)
    IN  /\ r.k = "proxy" /\ s.k = "proxy"
        /\ ~Has(key)
        /\ Return(res, Log("copy", r, s, key, read.ret, <<>>, res.ret))

---------------------------------------------------------------------------
(* Spec: a program that holds two views u and v and a clone of each, and   *)
(* makes one call: a swizzle read or write on u, a call of the algebra on  *)
(* u or its clone, or a direct access.  After a call of the algebra or a   *)
(* direct write it makes one more direct access.                           *)

EmptyHeap == [arrays |-> <<>>, objs |-> <<>>, proxies |-> <<>>]

\* the arguments that build u and v: pairwise different numbers, so that a
\* component tells where it was copied from
UBodies(cls) == {[i \in 1..Arity(cls) |-> Num(i)], <<Num(1)>>}

VBodies(cls) == {[i \in 1..Arity(cls) |-> Num(10 * i)], <<Num(10)>>}

PureOps ==
    {"clone", "add", "subtract", "multiply", "divide", "scalar", "lerp", "dot",
     "norm", "cross"}

\* the references the program holds after u = cu.new(...bu), v = cv.new(...bv),
\* u.clone(), v.clone()
U == ProxyRef(1)

V == ProxyRef(2)

UClone == VecRef(3)

VClone == VecRef(4)

Init ==
    \E cu \in Classes, cv \in Classes :
        \E bu \in UBodies(cu), bv \in VBodies(cv) :
            LET u == VecNew(EmptyHeap, cu, bu)
                v == VecNew(u.h, cv, bv)
                c == clone(v.h, TargetOf(v.h, u.ret))
                e == clone(c.h, TargetOf(c.h, v.ret))
            IN  /\ arrays = e.h.arrays
                /\ objs = e.h.objs
                /\ proxies = e.h.proxies
                /\ held = {u.ret, v.ret, c.ret, e.ret}
                /\ last = Log("init", NoRef, NoRef, <<>>, NoRef, <<>>, NoRef)
                /\ step = 0

\* who the first call is made on, and with what
Targets == IF step = 0 THEN {U} ELSE {}

Receivers == IF step = 0 THEN {U, UClone} ELSE {}

Arguments == {V, VClone}

Sources == {V, VClone} \cup NonVectors

\* who a direct access is made on
Writable == IF step <= 1 /\ last.op \in {"init"} \cup PureOps THEN held ELSE {}

Readable == IF step <= 1 /\ last.op \in {"init", "set_dimension"} THEN held ELSE {}

Next ==
    \/ \E r \in Receivers : Clone(r)
    \/ \E r \in Receivers, s \in Arguments : Add(r, s)
    \/ \E r \in Receivers, s \in Arguments : Subtract(r, s)
    \/ \E r \in Receivers, s \in Arguments : Multiply(r, s)
    \/ \E r \in Receivers, s \in Arguments : Divide(r, s)
    \/ \E r \in Receivers, number \in Factors : Scalar(r, number)
    \/ \E r \in Receivers, s \in Arguments, t \in Ts : Lerp(r, s, t)
    \/ \E r \in Receivers, s \in Arguments : Dot(r, s)
    \/ \E r \in Receivers : Norm(r)
    \/ \E r \in Receivers, s \in Arguments : Cross(r, s)
    \/ \E r \in Targets, key \in Keys \cup MemberNames : SwizzleGet(r, key)
    \/ \E r \in Targets, key \in Keys, value \in Sources : SwizzleSet(r, key, value)
    \/ \E r \in Targets, key \in Keys : SwizzleCopy(r, V, key)
    \/ \E r \in Writable, dimension \in Chars, value \in Written :
           SetDimension(r, dimension, value)
    \/ \E r \in Readable, dimension \in Chars : GetDimension(r, dimension)

Spec == Init /\ [][Next]_vars

---------------------------------------------------------------------------
(* SpecAlg: a program that builds two vectors of one class from numbers in *)
(* Val and makes one call on the first, the second the argument.           *)

InitAlg ==
    /\ arrays = <<>>
    /\ objs = <<>>
    /\ proxies = <<>>
    /\ held = {}
    /\ last = Log("init", NoRef, NoRef, <<>>, NoRef, <<>>, NoRef)
    /\ step = 0

\* the classes to build next: any for the first vector, the same for the second
FirstClasses == IF step = 0 THEN Classes ELSE {}

SecondClasses == IF step = 1 THEN {objs[1].cls} ELSE {}

\* the reference held to the instance objs[o]
RefTo(o) == CHOOSE r \in held : TargetOf(Heap, r) = o

\* the receiver and the argument of the call
Operands == IF step = 2 THEN {<<RefTo(1), RefTo(2)>>} ELSE {}

NextAlg ==
    \/ \E cls \in FirstClasses : \E body \in FullBodies(cls) \cup SingleBodies :
           Construct(cls, body)
    \/ \E cls \in FirstClasses \cup SecondClasses :
           \E body \in FullBodies(cls) \cup SingleBodies : New(cls, body)
    \/ \E ab \in Operands : Clone(ab[1])
    \/ \E ab \in Operands : Add(ab[1], ab[2])
    \/ \E ab \in Operands : Subtract(ab[1], ab[2])
    \/ \E ab \in Operands : Multiply(ab[1], ab[2])
    \/ \E ab \in Operands : Divide(ab[1], ab[2])
    \/ \E ab \in Operands, number \in Factors : Scalar(ab[1], number)
    \/ \E ab \in Operands, t \in Ts : Lerp(ab[1], ab[2], t)
    \/ \E ab \in Operands : Dot(ab[1], ab[2])
    \/ \E ab \in Operands : Norm(ab[1])
    \/ \E ab \in Operands : Cross(ab[1], ab[2])
    \/ \E ab \in Operands, dimension \in Chars : GetDimension(ab[1], dimension)

SpecAlg == InitAlg /\ [][NextAlg]_vars

---------------------------------------------------------------------------
(* The properties checked.  They read the heap through the definitions     *)
(* below, not through the model of the accessors.                          *)

HeapAfter == [arrays |-> arrays', objs |-> objs', proxies |-> proxies']

Names(H, o) == H.objs[o].swizzles

NameSet(H, o) == {Names(H, o)[i] : i \in 1..Len(Names(H, o))}

\* the component at position i (from 1): undefined where the body holds nothing
Component(H, o, i) ==
    LET es == BodyOf(H, o).elems
    IN  IF i > Len(es) THEN Undefined
        ELSE IF es[i] = Hole THEN Undefined
        ELSE es[i]

Position(H, o, name) == CHOOSE i \in 1..Len(Names(H, o)) : Names(H, o)[i] = name

\* the component called name, name one of the names
ComponentNamed(H, o, name) == Component(H, o, Position(H, o, name))

\* the vector holds one number for each of its pairwise different names
WellFormed(H, o) ==
    /\ Len(BodyOf(H, o).elems) = Len(Names(H, o))
    /\ \A i \in 1..Len(Names(H, o)) : BodyOf(H, o).elems[i].k = "num"
    /\ \A i, j \in 1..Len(Names(H, o)) : Names(H, o)[i] = Names(H, o)[j] => i = j

\* 1 <= len(p) <= N and every character of p is a name
ValidPattern(H, o, p) ==
    /\ Len(p) >= 1
    /\ Len(p) <= Len(Names(H, o))
    /\ \A i \in 1..Len(p) : p[i] \in NameSet(H, o)

\* ref is a view of a well-formed vector of one of the three classes
IsView(H, ref) ==
    /\ ref.k = "proxy"
    /\ H.proxies[ref.n].swizzles = Names(H, H.proxies[ref.n].target)
    /\ H.objs[H.proxies[ref.n].target].cls \in Classes
    /\ Names(H, H.proxies[ref.n].target)
           = swizzle_particals(H.objs[H.proxies[ref.n].target].cls)
    /\ WellFormed(H, H.proxies[ref.n].target)

\* C1: reading a valid pattern p off a view of a vector built with N numbers
\* gives the component named p[1] when p has one character, and otherwise a
\* new view of a new vector of len(p) components, the i-th the component
\* named p[i].
C1_SwizzleReadGathers ==
    [][(/\ last'.op = "get"
        /\ IsView(Heap, last'.recv)
        /\ ValidPattern(Heap, TargetOf(Heap, last'.recv), last'.key))
       => LET p == last'.key
              t == TargetOf(Heap, last'.recv)
              ret == last'.ret
          IN  IF Len(p) = 1
              THEN ret.k = "num" /\ ret = ComponentNamed(Heap, t, p[1])
              ELSE /\ ret.k = "proxy"
                   /\ ret.n \notin DOMAIN proxies
                   /\ TargetOf(HeapAfter, ret) \notin DOMAIN objs
                   /\ IsView(HeapAfter, ret)
                   /\ Len(BodyOf(HeapAfter, TargetOf(HeapAfter, ret)).elems) = Len(p)
                   /\ \A i \in 1..Len(p) :
                          Component(HeapAfter, TargetOf(HeapAfter, ret), i)
                              = ComponentNamed(Heap, t, p[i])]_vars

\* v = (1,2,3): v.zyx has been read and is (3,2,1)
C1_Witness ==
    /\ last.op = "get"
    /\ last.key = <<"z", "y", "x">>
    /\ last.ret.k = "proxy"
    /\ BodyOf(Heap, TargetOf(Heap, last.ret)).elems = <<Num(3), Num(2), Num(1)>>
    /\ BodyOf(Heap, TargetOf(Heap, last.recv)).elems = <<Num(1), Num(2), Num(3)>>

\* C2: a successful swizzle write changes only the components whose names
\* occur in the key, and changes them in place: the instance keeps its body
\* and its names, every view keeps its target, every other Array and instance
\* is as before, and a read through the view gives what the instance holds.
C2_SwizzleWriteFrame ==
    [][(last'.op \in {"set", "copy"} /\ last'.ret = JsTrue)
       => LET p == last'.key
              t == TargetOf(Heap, last'.recv)
          IN  /\ \A i \in 1..Len(Names(Heap, t)) :
                     (\A j \in 1..Len(p) : p[j] # Names(Heap, t)[i])
                         => Component(HeapAfter, t, i) = Component(Heap, t, i)
              /\ \A o \in DOMAIN objs : objs'[o] = objs[o]
              /\ \A px \in DOMAIN proxies : proxies'[px] = proxies[px]
              /\ \A a \in DOMAIN arrays :
                     a # objs[t].body => arrays'[a] = arrays[a]
              /\ \A name \in NameSet(Heap, t) :
                     get(HeapAfter, last'.recv.n, <<name>>).ret
                         = ComponentNamed(HeapAfter, t, name)]_vars

\* u = (1,2,3), v = (10,20): u.xy = v has made u (10,20,3), and the clone of
\* u taken before is still (1,2,3)
C2_Witness ==
    /\ last.op = "set"
    /\ last.ret = JsTrue
    /\ last.key = <<"x", "y">>
    /\ last.arg = V
    /\ BodyOf(Heap, TargetOf(Heap, V)).elems = <<Num(10), Num(20)>>
    /\ BodyOf(Heap, TargetOf(Heap, U)).elems = <<Num(10), Num(20), Num(3)>>
    /\ BodyOf(Heap, TargetOf(Heap, UClone)).elems = <<Num(1), Num(2), Num(3)>>

\* C3: on a view of a vector that holds a number for each name, a key that
\* is no member is taken as a swizzle exactly when it is a valid pattern; for
\* any other key a read gives undefined and a write gives false.
C3_InvalidPatternsRejected ==
    (last.op \in {"get", "set"} /\ ~Has(last.key) /\ IsView(Heap, last.recv))
        => LET t == TargetOf(Heap, last.recv)
               valid == ValidPattern(Heap, t, last.key)
           IN  /\ swizzleMatch(proxies[last.recv.n].swizzles, last.key) <=> valid
               /\ (last.op = "get" /\ ~valid) => last.ret = Undefined
               /\ (last.op = "set" /\ ~valid) => last.ret = JsFalse

\* C4: a vector built from N numbers c holds c[i] under its i-th name, and a
\* vector built from the single number k holds k under every name.
C4_ConstructionResolves ==
    last.op \in {"new", "construct"}
        => LET o == TargetOf(Heap, last.ret)
               c == last.body
           IN  \A i \in 1..Len(Names(Heap, o)) :
                   ComponentNamed(Heap, o, Names(Heap, o)[i])
                       = IF Len(c) = 1 THEN c[1] ELSE c[i]

\* no Array is the body of two instances
NoSharedBody(H) ==
    \A o1, o2 \in DOMAIN H.objs : H.objs[o1].body = H.objs[o2].body => o1 = o2

\* C5: clone, add, subtract, multiply, divide, scalar, lerp, dot, norm and
\* cross change no Array, instance or view that exists when they are called,
\* and a vector they return is a new instance with a new body; a direct or
\* swizzle write changes the body of the instance written and nothing else,
\* and never are two instances left with one body.  A clone has the names and
\* the components of its original.
C5_ValueSemantics ==
    [][/\ NoSharedBody(HeapAfter)
       /\ last'.op \in PureOps
            => /\ \A a \in DOMAIN arrays : arrays'[a] = arrays[a]
               /\ \A o \in DOMAIN objs : objs'[o] = objs[o]
               /\ \A px \in DOMAIN proxies : proxies'[px] = proxies[px]
               /\ IsRef(last'.ret)
                    => /\ TargetOf(HeapAfter, last'.ret) \notin DOMAIN objs
                       /\ objs'[TargetOf(HeapAfter, last'.ret)].body \notin DOMAIN arrays
       /\ last'.op = "clone"
            => /\ Names(HeapAfter, TargetOf(HeapAfter, last'.ret))
                     = Names(Heap, TargetOf(Heap, last'.recv))
               /\ BodyOf(HeapAfter, TargetOf(HeapAfter, last'.ret)).elems
                     = BodyOf(Heap, TargetOf(Heap, last'.recv)).elems
       /\ last'.op \in {"set_dimension", "set", "copy"}
            => /\ \A a \in DOMAIN arrays :
                      a # objs[TargetOf(Heap, last'.recv)].body => arrays'[a] = arrays[a]
               /\ \A o \in DOMAIN objs : objs'[o] = objs[o]
               /\ \A px \in DOMAIN proxies : proxies'[px] = proxies[px]]_vars

\* u = (1,2,3), v = (10,20,30): the sum was taken and its x then set to 9;
\* u, v and their clones are as they were
C5_Witness ==
    /\ step = 2
    /\ last.op = "set_dimension"
    /\ last.recv = VecRef(5)
    /\ BodyOf(Heap, 5).elems = <<Num(9), Num(22), Num(33)>>
    /\ BodyOf(Heap, TargetOf(Heap, U)).elems = <<Num(1), Num(2), Num(3)>>
    /\ BodyOf(Heap, TargetOf(Heap, V)).elems = <<Num(10), Num(20), Num(30)>>
    /\ BodyOf(Heap, UClone.n).elems = <<Num(1), Num(2), Num(3)>>
    /\ BodyOf(Heap, VClone.n).elems = <<Num(10), Num(20), Num(30)>>

\* what the claim gives for one component of a op b, a and b integers
Elementwise(op, t, a, b, r) ==
    CASE op = "add" -> r = Num(a.n + b.n)
      [] op = "subtract" -> r = Num(a.n - b.n)
      [] op = "multiply" -> r = Num(a.n * b.n)
      [] op = "lerp" ->
            IF t.n > t.d THEN r = b
            ELSE IF t.n < 0 THEN r = a
            ELSE r.k = "num" /\ 2 * r.n = (2 * a.n + a.n + b.n) * r.d

\* C6: for a and b of one class, each built from N integers, a.add(b),
\* a.subtract(b), a.multiply(b) and a.lerp(b, t) are new vectors with the
\* names of a whose i-th component is a[i] + b[i], a[i] - b[i], a[i] * b[i],
\* and for lerp b[i] when t > 1, a[i] when t < 0, a[i] + (a[i] + b[i]) / 2
\* otherwise.
C6_ElementWise ==
    [][(/\ last'.op \in {"add", "subtract", "multiply", "lerp"}
        /\ WellFormed(Heap, TargetOf(Heap, last'.recv))
        /\ WellFormed(Heap, TargetOf(Heap, last'.arg))
        /\ Len(Names(Heap, TargetOf(Heap, last'.recv)))
             = Len(Names(Heap, TargetOf(Heap, last'.arg))))
       => LET a == TargetOf(Heap, last'.recv)
              b == TargetOf(Heap, last'.arg)
              r == TargetOf(HeapAfter, last'.ret)
          IN  /\ IsRef(last'.ret)
              /\ r \notin DOMAIN objs
              /\ Names(HeapAfter, r) = Names(Heap, a)
              /\ Len(BodyOf(HeapAfter, r).elems) = Len(Names(Heap, a))
              /\ \A i \in 1..Len(Names(Heap, a)) :
                     Elementwise(last'.op, last'.num, Component(Heap, a, i),
                                 Component(Heap, b, i), Component(HeapAfter, r, i))]_vars

\* a = (1,2), b = (2,1): a.lerp(b, 1/2) is (5/2, 7/2)
C6_Witness ==
    /\ last.op = "lerp"
    /\ last.num = Rat(1, 2)
    /\ BodyOf(Heap, TargetOf(Heap, last.recv)).elems = <<Num(1), Num(2)>>
    /\ BodyOf(Heap, TargetOf(Heap, last.arg)).elems = <<Num(2), Num(1)>>
    /\ BodyOf(Heap, TargetOf(Heap, last.ret)).elems = <<Rat(5, 2), Rat(7, 2)>>

\* C7: for a and b built by Vec3 from three numbers each, a.cross(b) is a new
\* vector of three components, x = a.y*b.z - a.z*b.y, y = a.z*b.x - a.x*b.z,
\* z = a.x*b.y - a.y*b.x, and b.cross(a) is its negation; on a receiver that
\* does not hold three components cross gives undefined and does nothing.
C7_Cross ==
    [][last'.op = "cross"
       => LET a == TargetOf(Heap, last'.recv)
              b == TargetOf(Heap, last'.arg)
              r == TargetOf(HeapAfter, last'.ret)
              A == [i \in 1..3 |-> Component(Heap, a, i).n]
              B == [i \in 1..3 |-> Component(Heap, b, i).n]
              rev == cross(Heap, b, a)
          IN  /\ (/\ objs[a].cls = "Vec3" /\ WellFormed(Heap, a)
                  /\ objs[b].cls = "Vec3" /\ WellFormed(Heap, b))
                   => /\ IsRef(last'.ret)
                      /\ r \notin DOMAIN objs
                      /\ Names(HeapAfter, r) = <<"x", "y", "z">>
                      /\ BodyOf(HeapAfter, r).elems
                            = << Num(A[2] * B[3] - A[3] * B[2]),
                                 Num(A[3] * B[1] - A[1] * B[3]),
                                 Num(A[1] * B[2] - A[2] * B[1]) >>
                      /\ \A i \in 1..3 :
                             Component(rev.h, rev.ret.n, i)
                                 = Num(0 - Component(HeapAfter, r, i).n)
              /\ Len(BodyOf(Heap, a).elems) # 3
                   => /\ last'.ret = Undefined
                      /\ arrays' = arrays /\ objs' = objs /\ proxies' = proxies]_vars

\* a = (1,2,1), b = (2,1,1): a.cross(b) is (1,1,-3)
C7_Witness ==
    /\ last.op = "cross"
    /\ BodyOf(Heap, TargetOf(Heap, last.recv)).elems = <<Num(1), Num(2), Num(1)>>
    /\ BodyOf(Heap, TargetOf(Heap, last.arg)).elems = <<Num(2), Num(1), Num(1)>>
    /\ BodyOf(Heap, TargetOf(Heap, last.ret)).elems = <<Num(1), Num(1), Num(-3)>>

\* C8: every vector has as many components as names, and its names are
\* pairwise different.
C8_ComponentsMatchNames ==
    \A o \in DOMAIN objs :
        /\ Len(BodyOf(Heap, o).elems) = Len(Names(Heap, o))
        /\ \A i, j \in 1..Len(Names(Heap, o)) :
               Names(Heap, o)[i] = Names(Heap, o)[j] => i = j

\* C9: on a vector that holds a number for each name, get_dimension and
\* set_dimension with a name that is none of the vector's names fail, and the vector is then as it was: every get_dimension
\* gives what it gave before.
C9_UnknownNamesRejected ==
    [][(/\ last'.op \in {"get_dimension", "set_dimension"}
        /\ WellFormed(Heap, TargetOf(Heap, last'.recv))
        /\ last'.key[1] \notin NameSet(Heap, TargetOf(Heap, last'.recv)))
       => /\ last'.ret = Throws
          /\ \A c \in Chars :
                 get_dimension(HeapAfter, TargetOf(Heap, last'.recv), c)
                     = get_dimension(Heap, TargetOf(Heap, last'.recv), c)]_vars

\* the characters of p are pairwise different
Distinct(p) == \A i, j \in 1..Len(p) : p[i] = p[j] => i = j

\* C10: for views u and v of one arity and a valid pattern p of pairwise
\* different characters, u[p] = v[p] leaves the component of u named p[i]
\* equal to the component of v named p[i]; and for a vector s of len(p)
\* components, u[p] = s leaves the component of u named p[i] equal to the i-th
\* component of s.
C10_WritesHonourPatternOrder ==
    [][(/\ last'.op \in {"set", "copy"}
        /\ IsView(Heap, last'.recv)
        /\ ValidPattern(Heap, TargetOf(Heap, last'.recv), last'.key)
        /\ Distinct(last'.key))
       => LET p == last'.key
              u == TargetOf(Heap, last'.recv)
              s == TargetOf(Heap, last'.arg)
          IN  /\ (/\ last'.op = "copy"
                  /\ IsView(Heap, last'.arg)
                  /\ Names(Heap, s) = Names(Heap, u))
                   => \A i \in 1..Len(p) :
                          ComponentNamed(HeapAfter, u, p[i]) = ComponentNamed(Heap, s, p[i])
              /\ (/\ last'.op = "set"
                  /\ IsRef(last'.arg)
                  /\ WellFormed(Heap, s)
                  /\ Len(Names(Heap, s)) = Len(p))
                   => \A i \in 1..Len(p) :
                          ComponentNamed(HeapAfter, u, p[i]) = Component(Heap, s, i)]_vars

\* C11: a swizzle write through a view that returns false -- the key is no
\* valid pattern, the value is no vector, or the value (a vector holding a
\* number for each of its names) has no component of some name in the key --
\* leaves every component of the vector written as it was.
C11_FailedWritesAtomic ==
    [][(/\ last'.op = "set"
        /\ last'.ret = JsFalse
        /\ IsView(Heap, last'.recv)
        /\ IsRef(last'.arg) => WellFormed(Heap, TargetOf(Heap, last'.arg)))
       => LET u == TargetOf(Heap, last'.recv)
          IN  /\ \A i \in 1..Len(Names(Heap, u)) :
                     Component(HeapAfter, u, i) = Component(Heap, u, i)
              /\ BodyOf(HeapAfter, u) = BodyOf(Heap, u)]_vars

===========================================================================
